---- MODULE Spec2Model ----
(***************************************************************************)
(* Model of pelita/player/base2.py: SimpleTeam (the team multiplexer) and  *)
(* Player2 (the per-bot agent session), with the universe, its copy and    *)
(* its movement primitive as the external collaborators they call.         *)
(*                                                                         *)
(* A universe object held by the game master has an identity (1..NumUnis)  *)
(* and a mutable content; universe.copy() yields a fresh object that only  *)
(* its holder references, so a copy is kept by value ("own" entry) and a   *)
(* shared object by identity ("ref" entry).                                *)
(***************************************************************************)
EXTENDS Integers, Sequences, FiniteSets, TLC

\* ---------------------------------------------------------------- bounds
MaxPlayers == 2     \* agents given to SimpleTeam(...)
MaxTeamBots == 2    \* bots per team in the universe's layout
MaxCalls == 3       \* steps the game master takes (calls on the team, moves in its universe)
MaxTeamCalls == 2   \* the same, where teams of every size are tried
MaxDepth == 2       \* length of a chain of simulate_move calls
MaxSeedCalls == 2   \* calls of set_initial where the seeding is looked at
MaxScript == 2      \* length of the move lists given to a SteppingPlayer
MaxTurn == 2        \* highest turn a TurnBasedPlayer's table may define
MaxScriptCalls == 7 \* calls on a team of one scripted player
MaxSayCalls == 4    \* calls on a team of one player that speaks

\* ------------------------------------------------------- external values
\* the maze of the universe: a corridor of this many free cells
MazeWidth == 2
\* the game master of a local game holds one universe object, which it changes
\* in place as the game goes on and hands to the team at every call
NumUnis == 1

\* datamodel.north, south, west, east, stop (directions)
Moves == {"north", "south", "west", "east", "stop"}
stop == "stop"
\* Python's None as the return value of a get_move that falls through
NoMove == "None"

Seeds == {<< >>, <<42>>}          \* game_state.get("seed"): absent or an int
\* the seeds and the seed_offset attributes tried where the seeding is looked at
SeedValues == {<< >>, <<0>>, <<42>>}
SeedOffsets == {<< >>, <<10>>}
\* SimpleTeam(*args): an optional leading team name, then the players
NameArgs == {<< >>, <<"my team">>}
TeamIds == {0, 1}
Texts == {"hi"}
SayTexts == {"hi", "ho"}          \* where the order of what is said matters

\* The classes of this file an agent is an instance of; "UserPlayer" stands
\* for a user-written subclass of Player2 that supplies copy() and its own
\* get_move().
Classes == {"StoppingPlayer", "MoveExceptionPlayer", "InitialExceptionPlayer", "UserPlayer"}

\* what may be handed to SimpleTeam(...) as a player: a Player2, or an object
\* of some other class that lacks one of the operations, or all of them
Objects == {"StoppingPlayer", "NoSetIndex", "NoGetMove", "NoSetInitial", "Bare"}

Xs == 0 .. (MazeWidth - 1)
UniIds == 1 .. NumUnis

\* game_state dicts: the game master's carry a seed, move_bot's name the bot moved
GameState(seed, moved) == [seed |-> seed, bot_moved |-> moved]
GameStates == {GameState(s, << >>) : s \in Seeds}

VARIABLES
    args,           \* the arguments SimpleTeam(...) was constructed with
    team_name,      \* SimpleTeam.team_name
    players,        \* SimpleTeam._players: position -> the Player2 object's attributes
    bot_players,    \* SimpleTeam._bot_players: bot index -> position in players
    remote_game,    \* SimpleTeam._remote_game
    unis,           \* the game master's universe objects: id -> content
    pc,             \* 0, or the position of the player whose get_move() callback runs
    future,         \* the chain of sessions returned by simulate_move in this callback
    ret,            \* outcome of the last operation
    passed,         \* per player: the (object, content at the call) of every universe handed to it
    said,           \* the last text passed to say() in the running callback, if any
    invoked,        \* per player: how often its get_move() has been invoked since construction
    budget          \* steps the game master may still take

vars == <<args, team_name, players, bot_players, remote_game, unis, pc, future, ret, passed, said, invoked, budget>>

\* -------------------------------------------------------------- universe
\* Universe content: the position of every bot. Bots alternate between the two
\* teams, as in pelita's layouts: team t owns bots t, t+2, t+4, ...
team_bots(content, team_id) ==
    LET n == Cardinality(DOMAIN content) \div 2
    IN  [i \in 1 .. n |-> team_id + 2 * (i - 1)]

Delta(move) == IF move = "east" THEN 1 ELSE IF move = "west" THEN -1 ELSE 0

\* Universe.legal_moves(pos): the corridor has walls to the north and south
legal_moves(pos) ==
    {m \in Moves : m \notin {"north", "south"} /\ (pos + Delta(m)) \in Xs}

\* Universe.move_bot(bot_index, move): moves the bot in place and returns the
\* resulting game state, or raises IllegalMoveException
move_bot(content, index, move) ==
    IF index \notin DOMAIN content \/ move \notin legal_moves(content[index])
    THEN [err |-> "IllegalMoveException", uni |-> content, state |-> GameState(<< >>, << >>)]
    ELSE [err |-> "",
          uni |-> [content EXCEPT ![index] = @ + Delta(move)],
          state |-> GameState(<< >>, <<index>>)]

\* history entries
RefEntry(u) == [kind |-> "ref", id |-> u, val |-> << >>]
OwnEntry(content) == [kind |-> "own", id |-> 0, val |-> content]
\* what an entry shows when read in a given heap of universe objects
ContentIn(heap, e) == IF e.kind = "ref" THEN heap[e.id] ELSE e.val
Content(e) == ContentIn(unis, e)

\* ---------------------------------------------------------------- Player2
NewPlayer(cls) ==
    [cls |-> cls,
     _remote_game |-> FALSE,
     _index |-> << >>,
     _store_universe |-> "unset",
     _current_state |-> << >>,
     universe_states |-> << >>,
     rnd |-> [init |-> FALSE, seed |-> << >>],
     _say |-> << >>,
     seed_offset |-> << >>,
     moves |-> << >>,
     turn_index |-> << >>]

\* what the last operation was called on and with, and how it ended
Outcome(op, who, arg, status, value) ==
    [op |-> op, who |-> who, arg |-> arg, status |-> status, value |-> value]

\* Player2._set_index
_set_index(self, index) == [self EXCEPT !._index = <<index>>]

\* _store_universe_copy that keeps only the latest universe
_store_universe_copy_Overwrite(self, u) ==
    [self EXCEPT !.universe_states =
        IF @ = << >> THEN <<OwnEntry(unis[u])>> ELSE [@ EXCEPT ![Len(@)] = OwnEntry(unis[u])]]

\* _store_universe_copy without the copy()
_store_universe_copy_NoCopy(self, u) ==
    [self EXCEPT !.universe_states = Append(@, RefEntry(u))]

\* Player2._store_universe_copy: universe.copy() is appended
_store_universe_copy(self, u) ==
    [self EXCEPT !.universe_states = Append(@, OwnEntry(unis[u]))]

\* Player2._store_universe_ref: the object itself is appended
_store_universe_ref(self, u) ==
    [self EXCEPT !.universe_states = Append(@, RefEntry(u))]

\* _store_universe that looks at the remote flag at every call
_store_universe_ByFlag(self, u) ==
    IF self._remote_game
    THEN _store_universe_ref(self, u)
    ELSE _store_universe_copy(self, u)

\* self._store_universe(universe): the bound method chosen by _set_initial
_store_universe(self, u) ==
    IF self._store_universe = "ref"
    THEN _store_universe_ref(self, u)
    ELSE _store_universe_copy(self, u)

\* the set_initial() hook: Player2's does nothing, InitialExceptionPlayer's raises
set_initial_hook_raises(self) == self.cls = "InitialExceptionPlayer"

\* _set_initial that tests the seed for truth, not for None: seed 0 seeds nothing
_set_initial_SeedTruthy(self, u, game_state) ==
    LET chosen == [self EXCEPT !._store_universe =
                        IF self._remote_game THEN "ref" ELSE "copy"]
        reset == [chosen EXCEPT !._current_state = <<game_state>>,
                                !.universe_states = << >>]
        stored == _store_universe(reset, u)
        seed_offset == IF self.seed_offset # << >> THEN self.seed_offset[1] ELSE self._index[1]
        seeded == [stored EXCEPT !.rnd =
                        [init |-> TRUE,
                         seed |-> IF game_state.seed # << >> /\ game_state.seed[1] # 0
                                  THEN <<game_state.seed[1] + seed_offset>>
                                  ELSE << >>]]
    IN  [player |-> seeded, raised |-> set_initial_hook_raises(seeded)]

\* _set_initial that calls the hook before anything else
_set_initial_HookFirst(self, u, game_state) ==
    LET chosen == [self EXCEPT !._store_universe =
                        IF self._remote_game THEN "ref" ELSE "copy"]
        reset == [chosen EXCEPT !._current_state = <<game_state>>,
                                !.universe_states = << >>]
        stored == _store_universe(reset, u)
        seed_offset == IF self.seed_offset # << >> THEN self.seed_offset[1] ELSE self._index[1]
        seeded == [stored EXCEPT !.rnd =
                        [init |-> TRUE,
                         seed |-> IF game_state.seed # << >>
                                  THEN <<game_state.seed[1] + seed_offset>>
                                  ELSE << >>]]
    IN  IF set_initial_hook_raises(self)
        THEN [player |-> self, raised |-> TRUE]
        ELSE [player |-> seeded, raised |-> FALSE]

\* Player2._set_initial up to and including the call of the hook
_set_initial(self, u, game_state) ==
    LET chosen == [self EXCEPT !._store_universe =
                        IF self._remote_game THEN "ref" ELSE "copy"]
        reset == [chosen EXCEPT !._current_state = <<game_state>>,
                                !.universe_states = << >>]
        stored == _store_universe(reset, u)
        seed_offset == IF self.seed_offset # << >> THEN self.seed_offset[1] ELSE self._index[1]
        seeded == [stored EXCEPT !.rnd =
                        [init |-> TRUE,
                         seed |-> IF game_state.seed # << >>
                                  THEN <<game_state.seed[1] + seed_offset>>
                                  ELSE << >>]]
    IN  [player |-> seeded, raised |-> set_initial_hook_raises(seeded)]

\* _get_move that initialises the session anew on every move request
_get_move_Reinit(self, u, game_state) ==
    [_set_initial(self, u, game_state).player EXCEPT !._say = <<"">>]

\* _get_move that leaves the text of the last move request in place
_get_move_KeepSay(self, u, game_state) ==
    LET updated == [self EXCEPT !._current_state = <<game_state>>]
        stored == _store_universe(updated, u)
    IN  [stored EXCEPT !._say = IF @ = << >> THEN <<"">> ELSE @]

\* Player2._get_move up to the call of self.get_move()
_get_move(self, u, game_state) ==
    LET updated == [self EXCEPT !._current_state = <<game_state>>]
        stored == _store_universe(updated, u)
    IN  [stored EXCEPT !._say = <<"">>]

\* Player2.say
say(self, text) == [self EXCEPT !._say = <<text>>]

\* Player2._current_uni
_current_uni(self) == self.universe_states[Len(self.universe_states)]

\* previous_pos that reads the latest universe, universe_states[-1]
previous_pos_Latest(self) ==
    IF self._store_universe = "unset" THEN [err |-> "AttributeError", pos |-> << >>]
    ELSE LET c == Content(self.universe_states[Len(self.universe_states)])
         IN  IF self._index[1] \notin DOMAIN c
             THEN [err |-> "IndexError", pos |-> << >>]
             ELSE [err |-> "", pos |-> <<c[self._index[1]]>>]

\* Player2.previous_pos: universe_states[-2].bots[self._index].current_pos
previous_pos(self) ==
    IF self._store_universe = "unset" THEN [err |-> "AttributeError", pos |-> << >>]
    ELSE IF Len(self.universe_states) < 2 THEN [err |-> "IndexError", pos |-> << >>]
    ELSE LET c == Content(self.universe_states[Len(self.universe_states) - 1])
         IN  IF self._index[1] \notin DOMAIN c
             THEN [err |-> "IndexError", pos |-> << >>]
             ELSE [err |-> "", pos |-> <<c[self._index[1]]>>]

\* self.copy(): Player2 defines no copy(), nor does any class of this file; a
\* subclass that supplies it returns a detached clone of the session
has_copy(self) == self.cls = "UserPlayer"
copy(self) == self

\* simulate_move that moves the bot in self._current_uni itself, not in a copy
simulate_move_InPlace(self, move, heap) ==
    IF self._store_universe = "unset" \/ ~has_copy(self)
    THEN [err |-> "AttributeError", returned |-> << >>, self |-> self, heap |-> heap]
    ELSE LET n == Len(self.universe_states)
             cur == _current_uni(self)
             moved == move_bot(ContentIn(heap, cur), self._index[1], move)
             self1 == IF cur.kind = "own"
                      THEN [self EXCEPT !.universe_states[n] = OwnEntry(moved.uni)]
                      ELSE self
             heap1 == IF cur.kind = "ref" THEN [heap EXCEPT ![cur.id] = moved.uni] ELSE heap
         IN  IF moved.err # ""
             THEN [err |-> moved.err, returned |-> << >>, self |-> self, heap |-> heap]
             ELSE [err |-> "",
                   returned |-> <<[copy(self1) EXCEPT
                                     !.universe_states = Append(@, self1.universe_states[n]),
                                     !._current_state = <<moved.state>>]>>,
                   self |-> self1,
                   heap |-> heap1]

\* Player2.simulate_move, on a session held in the heap of universe objects
\* `heap`. Yields the error raised (or ""), the session returned (if any), and
\* the calling session and the heap as the call leaves them.
simulate_move(self, move, heap) ==
    IF self._store_universe = "unset"
    THEN [err |-> "AttributeError", returned |-> << >>, self |-> self, heap |-> heap]
    ELSE LET future_uni == ContentIn(heap, _current_uni(self))
             moved == move_bot(future_uni, self._index[1], move)
         IN  IF ~has_copy(self)
             THEN [err |-> "AttributeError", returned |-> << >>, self |-> self, heap |-> heap]
             ELSE IF moved.err # ""
             THEN [err |-> moved.err, returned |-> << >>, self |-> self, heap |-> heap]
             ELSE [err |-> "",
                   returned |-> <<[copy(self) EXCEPT
                                     !.universe_states = Append(@, OwnEntry(moved.uni)),
                                     !._current_state = <<moved.state>>]>>,
                   self |-> self,
                   heap |-> heap]

\* ------------------------------------------------------------- SimpleTeam
\* Bind with the binding keyed by the player's position instead of bot.index
Bind_ByPosition(mapping, key, value) ==
    [k \in (DOMAIN mapping) \cup {value} |-> IF k = value THEN value ELSE mapping[k]]

\* self._bot_players[bot.index] = player
Bind(mapping, key, value) ==
    [k \in (DOMAIN mapping) \cup {key} |-> IF k = key THEN value ELSE mapping[k]]

\* the loop of SimpleTeam.set_initial over zip(team_bots, self._players), from
\* pair i on; it ends at the shorter of the two, or where a player raises
RECURSIVE BindLoop(_, _, _, _, _)
BindLoop(i, bots, u, game_state, st) ==
    IF i > Len(bots) \/ i > Len(st.players)
    THEN st
    ELSE LET indexed == _set_index(st.players[i], bots[i])
             init == _set_initial(indexed, u, game_state)
         IN  IF init.raised
             THEN [st EXCEPT !.players[i] = init.player,
                             !.inited = @ \cup {i},
                             !.err = "Exception"]
             ELSE BindLoop(i + 1, bots, u, game_state,
                           [st EXCEPT !.players[i] = init.player,
                                      !.inited = @ \cup {i},
                                      !.bot_players = Bind(@, bots[i], i)])

\* set_initial with the length check made after the loop instead of before it
set_initial_CheckLate(team_id, u, game_state) ==
    LET bots == team_bots(unis[u], team_id)
        st0 == [players |-> players, bot_players |-> bot_players,
                inited |-> {}, err |-> ""]
        st1 == BindLoop(1, bots, u, game_state, st0)
    IN  IF Len(bots) > Len(players) /\ st1.err = ""
        THEN [st1 EXCEPT !.err = "ValueError"]
        ELSE st1

\* SimpleTeam.set_initial
set_initial(team_id, u, game_state) ==
    LET bots == team_bots(unis[u], team_id)
        st0 == [players |-> players, bot_players |-> bot_players,
                inited |-> {}, err |-> ""]
    IN  IF Len(bots) > Len(players)
        THEN [st0 EXCEPT !.err = "ValueError"]
        ELSE BindLoop(1, bots, u, game_state, st0)

\* the three operations SimpleTeam.__init__ asks of a player, in the order it asks
Required == <<"_set_index", "_get_move", "_set_initial">>

\* hasattr(player, method): every Player2 has the three; an object that is no
\* Player2 has those its class gives it
Lacking == [NoSetIndex |-> "_set_index", NoGetMove |-> "_get_move", NoSetInitial |-> "_set_initial"]
hasattr(player, method) ==
    IF player.cls = "Bare" THEN FALSE
    ELSE IF player.cls \in DOMAIN Lacking THEN Lacking[player.cls] # method
    ELSE TRUE

\* FirstMissing that looks at the first player only
FirstMissing_FirstPlayerOnly(ps) ==
    IF ps = << >> THEN << >>
    ELSE LET lacks == {k \in DOMAIN Required : ~hasattr(ps[1], Required[k])}
         IN  IF lacks = {} THEN << >>
             ELSE <<Required[CHOOSE k \in lacks : \A h \in lacks : k <= h]>>

\* the first (player, method) pair the loops of SimpleTeam.__init__ find missing
FirstMissing(ps) ==
    LET bad == {i \in DOMAIN ps : \E k \in DOMAIN Required : ~hasattr(ps[i], Required[k])}
    IN  IF bad = {} THEN << >>
        ELSE LET i == CHOOSE j \in bad : \A h \in bad : j <= h
                 k == CHOOSE j \in DOMAIN Required :
                        /\ ~hasattr(ps[i], Required[j])
                        /\ \A h \in 1 .. (j - 1) : hasattr(ps[i], Required[h])
             IN  <<Required[k]>>

\* SimpleTeam.__init__(*args), args being the optional name and the players
SimpleTeam(a) ==
    LET none == [err |-> "ValueError", missing |-> << >>, team_name |-> "",
                 players |-> << >>, bot_players |-> << >>, remote_game |-> FALSE]
    IN  IF a.name = << >> /\ a.players = << >>
        THEN none
        ELSE IF FirstMissing(a.players) # << >>
        THEN [none EXCEPT !.err = "TypeError", !.missing = FirstMissing(a.players)]
        ELSE [none EXCEPT
                !.err = "",
                !.team_name = IF a.name # << >> THEN a.name[1] ELSE "",
                !.players = [i \in DOMAIN a.players |->
                                [a.players[i] EXCEPT !._remote_game = FALSE]]]

\* SimpleTeam.remote_game (setter)
set_remote_game(flag) == [i \in DOMAIN players |-> [players[i] EXCEPT !._remote_game = flag]]

NoFuture == [of |-> 0, sessions |-> << >>, moves |-> << >>]
Handed(u) == [id |-> u, content |-> unis[u]]

\* ------------------------------------------------------------------ Init
\* the state after SimpleTeam(*a), in a universe of n bots per team, with the
\* game master about to take `steps` steps
ConstructedWith(a, n, steps) ==
    LET team == SimpleTeam(a)
    IN  /\ args = a
        /\ team_name = team.team_name
        /\ players = team.players
        /\ bot_players = team.bot_players
        /\ remote_game = team.remote_game
        /\ unis = [u \in UniIds |-> [b \in 0 .. (2 * n - 1) |-> (b + u) % MazeWidth]]
        /\ pc = 0
        /\ future = NoFuture
        /\ ret = Outcome("__init__", 0, << >>,
                         IF team.err = "" THEN "ok" ELSE team.err, team.missing)
        /\ passed = [i \in DOMAIN team.players |-> << >>]
        /\ said = << >>
        /\ invoked = [i \in DOMAIN team.players |-> 0]
        /\ budget = steps

\* the state after SimpleTeam(*args) for players of the classes of this file
Constructed(steps) ==
    \E P \in 1 .. MaxPlayers, n \in 1 .. MaxTeamBots :
        \E cls \in [1 .. P -> Classes], name \in NameArgs :
            ConstructedWith([name |-> name, players |-> [i \in 1 .. P |-> NewPlayer(cls[i])]],
                            n, steps)

\* --------------------------------------------------------------- actions
\* SimpleTeam(...) has returned a team: a constructor that raised leaves no
\* object to call
Exists == ret.op # "__init__" \/ ret.status = "ok"

\* the game master sets team.remote_game
SetRemoteGame(flag) ==
    /\ pc = 0
    /\ Exists
    /\ remote_game' = flag
    /\ players' = set_remote_game(flag)
    /\ ret' = Outcome("remote_game", 0, <<flag>>, "ok", << >>)
    /\ future' = NoFuture
    /\ UNCHANGED <<args, team_name, bot_players, unis, pc, passed, said, invoked, budget>>

\* the game master calls team.set_initial(team_id, universe, game_state)
TeamSetInitial(team_id, u, game_state) ==
    /\ pc = 0
    /\ Exists
    /\ budget > 0
    /\ budget' = budget - 1
    /\ LET r == set_initial(team_id, u, game_state)
       IN  /\ players' = r.players
           /\ bot_players' = r.bot_players
           /\ passed' = [i \in DOMAIN passed |->
                            IF i \in r.inited THEN <<Handed(u)>> ELSE passed[i]]
           /\ ret' = Outcome("set_initial", 0, <<team_id, u, game_state>>,
                             IF r.err = "" THEN "ok" ELSE r.err,
                             IF r.err = "" THEN <<team_name>> ELSE << >>)
    /\ future' = NoFuture
    /\ UNCHANGED <<args, team_name, remote_game, unis, pc, said, invoked>>

\* SimpleTeam.get_move that tells every bound player of the new universe
SimpleTeam_get_move_Broadcast(bot_id, u, game_state) ==
    IF bot_id \notin DOMAIN bot_players
    THEN [err |-> "KeyError", who |-> 0, players |-> players]
    ELSE [err |-> "", who |-> bot_players[bot_id],
          players |-> [p \in DOMAIN players |->
                          IF \E k \in DOMAIN bot_players : bot_players[k] = p
                          THEN _get_move(players[p], u, game_state)
                          ELSE players[p]]]

\* SimpleTeam.get_move that asks its first bound player when bot_id is unknown
SimpleTeam_get_move_Default(bot_id, u, game_state) ==
    IF bot_players = << >>
    THEN [err |-> "KeyError", who |-> 0, players |-> players]
    ELSE LET p == IF bot_id \in DOMAIN bot_players
                  THEN bot_players[bot_id]
                  ELSE bot_players[CHOOSE k \in DOMAIN bot_players :
                                     \A h \in DOMAIN bot_players : k <= h]
         IN  [err |-> "", who |-> p,
              players |-> [players EXCEPT ![p] = _get_move(@, u, game_state)]]

\* SimpleTeam.get_move up to the call of the player's get_move(): the player
\* bound to bot_id is looked up and told to move; an unbound bot_id is a KeyError
SimpleTeam_get_move(bot_id, u, game_state) ==
    IF bot_id \notin DOMAIN bot_players
    THEN [err |-> "KeyError", who |-> 0, players |-> players]
    ELSE LET p == bot_players[bot_id]
         IN  [err |-> "", who |-> p,
              players |-> [players EXCEPT ![p] = _get_move(@, u, game_state)]]

\* the game master calls team.get_move(bot_id, universe, game_state): up to the
\* call of the player's get_move(), or the KeyError of an unbound bot_id
TeamGetMove(bot_id, u, game_state) ==
    /\ pc = 0
    /\ Exists
    /\ budget > 0
    /\ budget' = budget - 1
    /\ future' = NoFuture
    /\ LET r == SimpleTeam_get_move(bot_id, u, game_state)
       IN  /\ players' = r.players
           /\ pc' = r.who
           /\ IF r.err # ""
              THEN /\ ret' = Outcome("get_move", 0, <<bot_id, u, game_state>>, r.err, << >>)
                   /\ UNCHANGED <<passed, said>>
              ELSE /\ passed' = [passed EXCEPT ![r.who] = Append(@, Handed(u))]
                   /\ said' = << >>
                   /\ ret' = Outcome("get_move", r.who, <<bot_id, u, game_state>>, "running", << >>)
    /\ UNCHANGED <<args, team_name, bot_players, remote_game, unis, invoked>>

\* SteppingPlayer._MOVES: the shorthand symbols
_MOVES ==
    ("^" :> "north") @@ ("v" :> "south") @@ ("<" :> "west") @@ (">" :> "east") @@ ("-" :> "stop")

\* SteppingPlayer(moves): a str of shorthand symbols is translated through
\* _MOVES, a list of moves is taken as it is; self.moves iterates over the result
SteppingPlayer(moves) ==
    [NewPlayer("SteppingPlayer") EXCEPT
        !.moves = IF moves.kind = "str"
                  THEN [i \in DOMAIN moves.val |-> _MOVES[moves.val[i]]]
                  ELSE moves.val]

\* TurnBasedPlayer(moves): the table (a list, or a dict keyed by turn) is kept, and
\* turn_index is None
TurnBasedPlayer(moves) ==
    [NewPlayer("TurnBasedPlayer") EXCEPT !.moves = moves, !.turn_index = << >>]

\* SteppingPlayer.get_move that lets the end of the iteration through
SteppingPlayer_get_move_StopIteration(self) ==
    IF self.moves = << >>
    THEN [err |-> "StopIteration", move |-> NoMove, self |-> self]
    ELSE [err |-> "", move |-> Head(self.moves), self |-> [self EXCEPT !.moves = Tail(@)]]

\* SteppingPlayer.get_move: next(self.moves), StopIteration turned into ValueError
SteppingPlayer_get_move(self) ==
    IF self.moves = << >>
    THEN [err |-> "ValueError", move |-> NoMove, self |-> self]
    ELSE [err |-> "", move |-> Head(self.moves), self |-> [self EXCEPT !.moves = Tail(@)]]

\* TurnBasedPlayer.get_move that counts its first turn as turn 1
TurnBasedPlayer_get_move_FromOne(self) ==
    LET turn == IF self.turn_index = << >> THEN 1 ELSE self.turn_index[1] + 1
    IN  [err |-> "",
         move |-> IF turn \in DOMAIN self.moves THEN self.moves[turn] ELSE stop,
         self |-> [self EXCEPT !.turn_index = <<turn>>]]

\* TurnBasedPlayer.get_move: turn_index goes None, 0, 1, ...; moves[turn_index],
\* or stop on IndexError and KeyError
TurnBasedPlayer_get_move(self) ==
    LET turn == IF self.turn_index = << >> THEN 0 ELSE self.turn_index[1] + 1
    IN  [err |-> "",
         move |-> IF turn \in DOMAIN self.moves THEN self.moves[turn] ELSE stop,
         self |-> [self EXCEPT !.turn_index = <<turn>>]]

\* get_move() of the classes of this file: what it returns or raises, and the
\* player as it leaves it; a user's subclass returns the move it chooses
get_move(self, choice) ==
    IF self.cls = "StoppingPlayer" THEN [err |-> "", move |-> stop, self |-> self]
    ELSE IF self.cls = "MoveExceptionPlayer" THEN [err |-> "Exception", move |-> NoMove, self |-> self]
    ELSE IF self.cls = "InitialExceptionPlayer" THEN [err |-> "", move |-> NoMove, self |-> self]
    ELSE IF self.cls = "SteppingPlayer" THEN SteppingPlayer_get_move(self)
    ELSE IF self.cls = "TurnBasedPlayer" THEN TurnBasedPlayer_get_move(self)
    ELSE [err |-> "", move |-> choice, self |-> self]

\* _get_move_return that catches what get_move() raises, asks once more and
\* answers with the stop move when that fails too
_get_move_return_Fallback(self, choice) ==
    LET r == get_move(self, choice)
        again == get_move(r.self, choice)
    IN  IF r.err = ""
        THEN [self |-> r.self, calls |-> 1, status |-> "ok",
              value |-> <<r.move, r.self._say[1]>>]
        ELSE [self |-> again.self, calls |-> 2, status |-> "ok",
              value |-> <<IF again.err = "" THEN again.move ELSE stop, again.self._say[1]>>]

\* Player2._get_move from the call of self.get_move() on: the move is packed
\* with the text said, or the exception of get_move() is let through
_get_move_return(self, choice) ==
    LET r == get_move(self, choice)
    IN  [self |-> r.self,
         calls |-> 1,
         status |-> IF r.err = "" THEN "ok" ELSE r.err,
         value |-> IF r.err = "" THEN <<r.move, r.self._say[1]>> ELSE << >>]

\* the player's get_move() ends, and with it Player2._get_move and team.get_move
GetMoveReturn(choice) ==
    /\ pc # 0
    /\ LET r == _get_move_return(players[pc], choice)
       IN  /\ players' = [players EXCEPT ![pc] = r.self]
           /\ invoked' = [invoked EXCEPT ![pc] = @ + r.calls]
           /\ ret' = Outcome("get_move", pc, << >>, r.status, r.value)
    /\ pc' = 0
    /\ future' = NoFuture
    /\ UNCHANGED <<args, team_name, bot_players, remote_game, unis, passed, said, budget>>

\* the running get_move() of a user's subclass calls self.say(text)
Say(text) ==
    /\ pc # 0
    /\ players[pc].cls = "UserPlayer"
    /\ players' = [players EXCEPT ![pc] = say(@, text)]
    /\ said' = <<text>>
    /\ ret' = Outcome("say", pc, <<text>>, "ok", << >>)
    /\ UNCHANGED <<args, team_name, bot_players, remote_game, unis, pc, future, passed, invoked, budget>>

\* the running get_move() of player p calls self.simulate_move(move)
Simulate(p, move) ==
    /\ pc = p
    /\ LET r == simulate_move(players[p], move, unis)
       IN  /\ players' = [players EXCEPT ![p] = r.self]
           /\ unis' = r.heap
           /\ future' = IF r.err = ""
                        THEN [of |-> p, sessions |-> r.returned, moves |-> <<move>>]
                        ELSE NoFuture
           /\ ret' = Outcome("simulate_move", p, <<move>>,
                             IF r.err = "" THEN "ok" ELSE r.err, r.returned)
    /\ UNCHANGED <<args, team_name, bot_players, remote_game, pc, passed, said, invoked, budget>>

\* the running get_move() calls simulate_move(move) on the session the last
\* simulate_move returned
SimulateAgain(move) ==
    /\ pc # 0
    /\ future.sessions # << >>
    /\ Len(future.sessions) < MaxDepth
    /\ LET n == Len(future.sessions)
           r == simulate_move(future.sessions[n], move, unis)
       IN  /\ unis' = r.heap
           /\ future' = IF r.err = ""
                        THEN [future EXCEPT
                                !.sessions = Append([@ EXCEPT ![n] = r.self], r.returned[1]),
                                !.moves = Append(@, move)]
                        ELSE [future EXCEPT !.sessions[n] = r.self]
           /\ ret' = Outcome("simulate_move", 0, <<move>>,
                             IF r.err = "" THEN "ok" ELSE r.err, r.returned)
    /\ UNCHANGED <<args, team_name, players, bot_players, remote_game, pc, passed, said, invoked, budget>>

\* the game master moves a bot in one of its universe objects, in place
Mutate(u, bot, move) ==
    /\ pc = 0
    /\ budget > 0
    /\ bot \in DOMAIN unis[u]
    /\ move \in legal_moves(unis[u][bot]) \ {stop}
    /\ budget' = budget - 1
    /\ unis' = [unis EXCEPT ![u] = move_bot(@, bot, move).uni]
    /\ ret' = Outcome("mutate", 0, <<u, bot>>, "ok", << >>)
    /\ future' = NoFuture
    /\ UNCHANGED <<args, team_name, players, bot_players, remote_game, pc, passed, said, invoked>>

\* the calls the game master makes on the team
NextTeam ==
    \/ \E flag \in BOOLEAN : SetRemoteGame(flag)
    \/ \E t \in TeamIds, u \in UniIds, g \in GameStates : TeamSetInitial(t, u, g)
    \/ \E u \in UniIds, g \in GameStates : \E b \in DOMAIN unis[u] : TeamGetMove(b, u, g)
    \/ GetMoveReturn(stop)

\* every operation: the game master's, and those of a running get_move()
Next ==
    \/ \E flag \in BOOLEAN : SetRemoteGame(flag)
    \/ \E t \in TeamIds, u \in UniIds, g \in GameStates : TeamSetInitial(t, u, g)
    \/ \E u \in UniIds, g \in GameStates : \E b \in DOMAIN unis[u] : TeamGetMove(b, u, g)
    \/ \E m \in Moves : GetMoveReturn(m)
    \/ \E t \in Texts : Say(t)
    \/ \E p \in DOMAIN players, m \in Moves : Simulate(p, m)
    \/ \E m \in Moves : SimulateAgain(m)
    \/ \E u \in UniIds, m \in Moves : \E b \in DOMAIN unis[u] : Mutate(u, b, m)

\* a team of one player in a universe of one bot per team
Init ==
    /\ Constructed(MaxCalls)
    /\ Len(players) = 1
    /\ args.name = << >>
    /\ \A u \in UniIds : Cardinality(DOMAIN unis[u]) = 2

\* a team of any size and name, of players of the classes this file defines,
\* in a universe of any size
InitTeam ==
    \E P \in 1 .. MaxPlayers, n \in 1 .. MaxTeamBots :
        \E cls \in [1 .. P -> Classes \ {"UserPlayer"}], name \in NameArgs :
            ConstructedWith([name |-> name, players |-> [i \in 1 .. P |-> NewPlayer(cls[i])]],
                            n, MaxTeamCalls)

\* one session under every operation
Spec == Init /\ [][Next]_vars

\* every team under the game master's calls
SpecTeam == InitTeam /\ [][NextTeam]_vars

\* SimpleTeam(...) called with any arguments: no player, objects that are no players
InitNew ==
    \E P \in 0 .. MaxPlayers, n \in 1 .. MaxTeamBots :
        \E cls \in [1 .. P -> Objects], name \in NameArgs :
            ConstructedWith([name |-> name, players |-> [i \in 1 .. P |-> NewPlayer(cls[i])]],
                            n, MaxTeamCalls)

\* the construction of a team, and the game master's calls on what was constructed
SpecNew == InitNew /\ [][NextTeam]_vars

\* sequences over S of length up to n
SeqUpTo(S, n) == UNION {[1 .. k -> S] : k \in 0 .. n}

\* the moves given to a SteppingPlayer: a str of shorthand symbols (every short
\* one, and "><v^-"), or a list of moves
StrScripts == SeqUpTo(DOMAIN _MOVES, MaxScript) \cup {<<">", "<", "v", "^", "-">>}
Scripts ==
    {[kind |-> "str", val |-> v] : v \in StrScripts}
        \cup {[kind |-> "list", val |-> v] : v \in SeqUpTo(Moves, MaxScript)}

\* the tables given to a TurnBasedPlayer: a dict keyed by some turns (a list
\* is keyed by 0 .. len - 1)
TableMoves == {"north", "south"}
Tables == UNION {[D -> TableMoves] : D \in SUBSET (0 .. MaxTurn)}

\* a team of one scripted player, in a universe of one bot per team
InitScript ==
    \E agent \in {SteppingPlayer(m) : m \in Scripts} \cup {TurnBasedPlayer(t) : t \in Tables} :
        ConstructedWith([name |-> << >>, players |-> <<agent>>], 1, MaxScriptCalls)

\* the game of team 0: its set_initial and the move requests for its bot
NextScript ==
    \/ \E u \in UniIds : TeamSetInitial(0, u, GameState(<< >>, << >>))
    \/ \E u \in UniIds : TeamGetMove(0, u, GameState(<< >>, << >>))
    \/ GetMoveReturn(stop)

\* a scripted player over its move requests
SpecScript == InitScript /\ [][NextScript]_vars

\* a team of one player, silent or speaking, in a universe of one bot per team
InitSay ==
    \E cls \in {"StoppingPlayer", "UserPlayer"} :
        ConstructedWith([name |-> << >>, players |-> <<NewPlayer(cls)>>], 1, MaxSayCalls)

\* the game of team 0, with a player that says what it likes while asked to move
NextSay ==
    \/ \E u \in UniIds, g \in GameStates : TeamSetInitial(0, u, g)
    \/ \E u \in UniIds, g \in GameStates : TeamGetMove(0, u, g)
    \/ \E t \in SayTexts : Say(t)
    \/ \E m \in Moves : GetMoveReturn(m)

\* what a player says, over its move requests
SpecSay == InitSay /\ [][NextSay]_vars

\* teams of players that do or do not define a seed_offset attribute
InitSeed ==
    \E P \in 1 .. MaxPlayers, n \in 1 .. MaxTeamBots :
        \E off \in [1 .. P -> SeedOffsets] :
            ConstructedWith([name |-> << >>,
                             players |-> [i \in 1 .. P |->
                                [NewPlayer("UserPlayer") EXCEPT !.seed_offset = off[i]]]],
                            n, MaxSeedCalls)

\* set_initial with every seed
NextSeed ==
    \E t \in TeamIds, u \in UniIds, sd \in SeedValues : TeamSetInitial(t, u, GameState(sd, << >>))

\* the seeding of the sessions over the games of a team
SpecSeed == InitSeed /\ [][NextSeed]_vars

\* ================================================================ claims
IsPrefix(a, b) == Len(a) <= Len(b) /\ \A i \in 1 .. Len(a) : a[i] = b[i]
Range(f) == {f[k] : k \in DOMAIN f}

\* the step is a call of team.set_initial / team.get_move by the game master
IsSetInitialStep == ret'.op = "set_initial" /\ budget' = budget - 1
IsGetMoveStep == ret'.op = "get_move" /\ budget' = budget - 1

\* C1: for a team of P agents and a universe assigning it B <= P bots, a
\* set_initial in which no setup hook raises sets the i-th assigned bot index on
\* agent i, initialises agent i's session with the given universe and game
\* state, and maps that bot index to agent i, for every i <= B; it leaves the
\* agents beyond B as they were and binds no bot to them; and it returns the
\* team name, the empty string when no name was given to the constructor.
C1_PositionalBinding ==
    [][IsSetInitialStep =>
        LET t == ret'.arg[1]
            u == ret'.arg[2]
            g == ret'.arg[3]
            bots == team_bots(unis[u], t)
            B == Len(bots)
            P == Len(players)
        IN  (B <= P /\ \A i \in 1 .. B : ~set_initial_hook_raises(players[i])) =>
              /\ ret'.status = "ok"
              /\ ret'.value = <<IF args.name = << >> THEN "" ELSE args.name[1]>>
              /\ \A i \in 1 .. B :
                    /\ players'[i]._index = <<bots[i]>>
                    /\ players'[i]._current_state = <<g>>
                    /\ Len(players'[i].universe_states) = 1
                    /\ ContentIn(unis', players'[i].universe_states[1]) = unis[u]
                    /\ bots[i] \in DOMAIN bot_players'
                    /\ bot_players'[bots[i]] = i
              /\ \A i \in (B + 1) .. P :
                    /\ players'[i] = players[i]
                    /\ \A k \in DOMAIN bot_players' :
                          bot_players'[k] = i => (k \in DOMAIN bot_players /\ bot_players[k] = i)
    ]_vars

\* C1 witness: an unnamed team with a surplus agent has been bound
C1_Witness ==
    /\ ret.op = "set_initial"
    /\ ret.status = "ok"
    /\ ret.value = <<"">>
    /\ args.name = << >>
    /\ Len(players) > Len(team_bots(unis[ret.arg[2]], ret.arg[1]))
    /\ bot_players # << >>

\* C2: when the universe assigns the team more bots than it has agents,
\* set_initial fails with ValueError and binds nothing: the mapping and every
\* agent (its index, its session) are as before the call.
C2_NoPartialBinding ==
    [][(IsSetInitialStep
          /\ Len(team_bots(unis[ret'.arg[2]], ret'.arg[1])) > Len(players)) =>
        /\ ret'.status = "ValueError"
        /\ ret'.value = << >>
        /\ bot_players' = bot_players
        /\ players' = players
    ]_vars

\* C2 witness: set_initial has failed for want of agents
C2_Witness ==
    /\ ret.op = "set_initial"
    /\ ret.status = "ValueError"
    /\ Len(team_bots(unis[ret.arg[2]], ret.arg[1])) > Len(players)

\* some set_initial has succeeded: every bot of one team is bound
Populated ==
    \E t \in TeamIds :
        LET bots == team_bots(unis[1], t)
        IN  /\ Len(bots) <= Len(players)
            /\ \A i \in 1 .. Len(bots) : bots[i] \in DOMAIN bot_players

\* the step leaves the session of player p initialised as it was
SessionKept(p) ==
    /\ IsPrefix(players[p].universe_states, players'[p].universe_states)
    /\ players'[p]._index = players[p]._index
    /\ players'[p]._store_universe = players[p]._store_universe
    /\ players'[p].rnd = players[p].rnd

\* C3 as claimed: once a set_initial has succeeded, no later call changes the
\* mapping or initialises a bound session anew.
C3_Original ==
    [][Populated =>
        /\ bot_players' = bot_players
        /\ \A p \in Range(bot_players) : SessionKept(p)
    ]_vars

\* C3 as amended: once a set_initial has succeeded, no get_move call (and no
\* change of the remote flag) changes the mapping or initialises a bound
\* session anew; a later successful set_initial does: it binds the bots it is
\* given over the existing mapping and starts the history of each paired
\* session again at the one snapshot it is given.
C3_PopulatedUntilNextSetInitial ==
    [][Populated =>
        IF IsSetInitialStep
        THEN ret'.status = "ok" =>
               LET bots == team_bots(unis[ret'.arg[2]], ret'.arg[1])
               IN  /\ \A k \in DOMAIN bot_players :
                         k \in DOMAIN bot_players'
                         /\ (k \notin Range(bots) => bot_players'[k] = bot_players[k])
                   /\ \A i \in 1 .. Len(bots) :
                         /\ bot_players'[bots[i]] = i
                         /\ Len(players'[i].universe_states) = 1
        ELSE /\ bot_players' = bot_players
             /\ \A p \in Range(bot_players) :
                   /\ SessionKept(p)
                   /\ IsGetMoveStep /\ ret'.who = p =>
                        Len(players'[p].universe_states) = Len(players[p].universe_states) + 1
    ]_vars

\* C3 witness: a second set_initial, for the other team's bots, has added its
\* bindings to those of the first
C3_Witness ==
    /\ ret.op = "set_initial"
    /\ ret.status = "ok"
    /\ Cardinality(DOMAIN bot_players) > Len(team_bots(unis[ret.arg[2]], ret.arg[1]))

\* the step is the session-init of player p, made by a team.set_initial
SessionInitStep(p) ==
    /\ IsSetInitialStep
    /\ LET bots == team_bots(unis[ret'.arg[2]], ret'.arg[1])
       IN  /\ Len(bots) <= Len(players)
           /\ p <= Len(bots)
           /\ \A i \in 1 .. (p - 1) : ~set_initial_hook_raises(players[i])

\* entry e of a history is the universe handed over at a call: the object
\* itself, or a copy of what it held at the call
IsSnapshotOf(e, handed) ==
    \/ e.kind = "ref" /\ e.id = handed.id
    \/ e.kind = "own" /\ e.val = handed.content

IsSimulateStep == ret'.op = "simulate_move"
\* the session simulate_move is called on in this step
Caller == IF ret'.who # 0 THEN players[ret'.who] ELSE future.sessions[Len(future.sessions)]
CallerAfter ==
    IF ret'.who # 0 THEN players'[ret'.who] ELSE future'.sessions[Len(future.sessions)]

\* C5: a call of simulate_move, whatever the move and the storage policy,
\* leaves the calling session as it was (its history, its current game state
\* and every other attribute), leaves every other session as it was, and leaves
\* the universe objects, the real current snapshot among them, unchanged.
C5_SimulateLeavesCallerAlone ==
    [][IsSimulateStep =>
        /\ CallerAfter = Caller
        /\ players' = players
        /\ unis' = unis
        /\ \A i \in 1 .. Len(future.sessions) :
              ret'.who = 0 => future'.sessions[i] = future.sessions[i]
    ]_vars

\* C5 witness: under the reference policy, a move that changes the position has
\* been simulated and a session returned
C5_Witness ==
    /\ ret.op = "simulate_move"
    /\ ret.status = "ok"
    /\ ret.who # 0
    /\ ret.arg[1] # stop
    /\ players[ret.who]._store_universe = "ref"

\* C6 as claimed: simulate_move with a legal move, called on a session and then
\* on the session it returned, returns a session whose history is that of the
\* calling session followed by the snapshot after the move, and whose current
\* game state is the one move_bot returned.
C6_ChainExtendsByOne ==
    [][(IsSimulateStep
          /\ ret'.arg[1] \in legal_moves(Content(_current_uni(Caller))[Caller._index[1]])) =>
        LET moved == move_bot(Content(_current_uni(Caller)), Caller._index[1], ret'.arg[1])
        IN  /\ ret'.status = "ok"
            /\ Len(ret'.value) = 1
            /\ Len(ret'.value[1].universe_states) = Len(Caller.universe_states) + 1
            /\ IsPrefix(Caller.universe_states, ret'.value[1].universe_states)
            /\ ContentIn(unis', ret'.value[1].universe_states[Len(Caller.universe_states) + 1])
                 = moved.uni
            /\ ret'.value[1]._current_state = <<moved.state>>
            /\ CallerAfter = Caller
    ]_vars

\* C7 as claimed: simulate_move with a move that move_bot rejects fails with
\* IllegalMoveException, returns no session, and leaves the calling session as
\* it was.
C7_IllegalMoveSurfaces ==
    [][(IsSimulateStep
          /\ ret'.arg[1] \notin legal_moves(Content(_current_uni(Caller))[Caller._index[1]])) =>
        /\ ret'.status = "IllegalMoveException"
        /\ ret'.value = << >>
        /\ CallerAfter = Caller
    ]_vars

\* C8: when the game master changes its universe object in place after handing
\* it to a session, every history entry of a session under the value policy
\* shows what it showed before, and every entry of a session under the
\* reference policy that was stored from that object shows the change.
C8_CopyIsolatesHistory ==
    [][ret'.op = "mutate" =>
        \A p \in DOMAIN players :
            \A i \in 1 .. Len(players[p].universe_states) :
                LET e == players[p].universe_states[i]
                    e1 == players'[p].universe_states[i]
                IN  /\ players[p]._store_universe = "copy" =>
                          ContentIn(unis', e1) = ContentIn(unis, e)
                    /\ (players[p]._store_universe = "ref"
                            /\ passed[p][i].id = ret'.arg[1]) =>
                          /\ ContentIn(unis', e1) = unis'[ret'.arg[1]]
                          /\ ContentIn(unis', e1) # ContentIn(unis, e)
    ]_vars

\* C8 witness: after a change in place, a session under the value policy holds
\* two snapshots, from session-init and from a move request, that differ from
\* what the object now holds
C8_Witness ==
    /\ ret.op = "mutate"
    /\ \E p \in DOMAIN players :
          /\ players[p]._store_universe = "copy"
          /\ Len(players[p].universe_states) = 2
          /\ \A i \in 1 .. 2 : Content(players[p].universe_states[i]) # unis[ret.arg[1]]

\* C9: the storage policy of a session is chosen at its session-init from the
\* remote flag the team has set on the agent by then, and no other step changes
\* it, a later change of the team's remote flag included; every snapshot in the
\* history is stored under that policy.
C9_OnePolicyPerSession ==
    [][\A p \in DOMAIN players :
        /\ SessionInitStep(p) =>
              players'[p]._store_universe = (IF remote_game THEN "ref" ELSE "copy")
        /\ ~SessionInitStep(p) =>
              players'[p]._store_universe = players[p]._store_universe
        /\ \A i \in 1 .. Len(players'[p].universe_states) :
              players'[p].universe_states[i].kind =
                  (IF players'[p]._store_universe = "ref" THEN "ref" ELSE "own")
    ]_vars

\* C9 witness: the remote flag was set after set_initial, and a later move
\* request has still stored its snapshot by value
C9_Witness ==
    /\ pc # 0
    /\ remote_game
    /\ players[pc]._remote_game
    /\ players[pc]._store_universe = "copy"
    /\ Len(players[pc].universe_states) = 2
    /\ players[pc].universe_states[2].kind = "own"

\* the session of the running get_move() is in its first move request
InFirstMoveRequest == pc # 0 /\ Len(passed[pc]) = 2

\* C10 as claimed: reading previous_pos during the first move request of a
\* session fails with IndexError.
C10_Original == InFirstMoveRequest => previous_pos(players[pc]).err = "IndexError"

\* C10 as amended: previous_pos fails with IndexError while the history holds
\* the one snapshot of session-init, that is before the first move request;
\* from the first move request on it returns the position of the bound bot in
\* the last snapshot but one, which in the first move request is the snapshot
\* stored at session-init.
C10_PreviousPosNeedsTwoSnapshots ==
    \A p \in DOMAIN players :
        players[p]._store_universe # "unset" =>
            LET r == previous_pos(players[p])
                n == Len(passed[p])
            IN  /\ n = 1 => (r.err = "IndexError" /\ r.pos = << >>)
                /\ n >= 2 =>
                      /\ r.err = ""
                      /\ r.pos = <<(IF players[p]._store_universe = "ref"
                                    THEN unis[passed[p][n - 1].id]
                                    ELSE passed[p][n - 1].content)[players[p]._index[1]]>>

\* C10 witness: in its first move request a session reads a previous position
\* that differs from its current one
C10_Witness ==
    /\ InFirstMoveRequest
    /\ previous_pos(players[pc]).err = ""
    /\ previous_pos(players[pc]).pos
         # <<Content(_current_uni(players[pc]))[players[pc]._index[1]]>>

\* C11: a set_initial whose game state carries a seed S (0 included) seeds the
\* random stream of the session bound to bot index i with S + i, or with
\* S + seed_offset when the agent defines seed_offset; sessions of one game
\* bound to different bot indices (and relying on the index) get different
\* seeds; a session initialised again with the seed and the bot index it had
\* gets the stream it had; without a seed the stream is new and unseeded.
C11_SeedIsSeedPlusIndex ==
    [][IsSetInitialStep /\ ret'.status = "ok" =>
        LET S == ret'.arg[3].seed
            bots == team_bots(unis[ret'.arg[2]], ret'.arg[1])
            offset(i) == IF players[i].seed_offset # << >>
                         THEN players[i].seed_offset[1] ELSE bots[i]
        IN  /\ \A i \in 1 .. Len(bots) :
                  /\ players'[i].rnd.init
                  /\ S # << >> => players'[i].rnd.seed = <<S[1] + offset(i)>>
                  /\ S = << >> => players'[i].rnd.seed = << >>
                  /\ (players[i].rnd.init /\ players[i]._index = <<bots[i]>>
                        /\ players[i]._current_state[1].seed = S) =>
                        players'[i].rnd = players[i].rnd
            /\ \A i, j \in 1 .. Len(bots) :
                  (i # j /\ S # << >>
                     /\ players[i].seed_offset = << >> /\ players[j].seed_offset = << >>) =>
                  players'[i].rnd.seed # players'[j].rnd.seed
    ]_vars

\* C11 witness: seed 0 has seeded the two sessions of a team with the bot
\* indices they are bound to, 1 and 3
C11_Witness ==
    /\ ret.op = "set_initial"
    /\ ret.status = "ok"
    /\ ret.arg[3].seed = <<0>>
    /\ Len(players) = 2
    /\ players[1]._index = <<1>> /\ players[1].rnd.seed = <<1>>
    /\ players[2]._index = <<3>> /\ players[2].rnd.seed = <<3>>

\* C12 as claimed: SimpleTeam(...) without any player fails, with or without a
\* team name as first argument: no team of zero players exists.
C12_NoEmptyTeam ==
    args.players = << >> => (ret.op = "__init__" /\ ret.status = "ValueError")

\* C13: SimpleTeam(...) given some object that lacks one of _set_index,
\* _get_move, _set_initial fails with a TypeError that names an operation
\* missing from the first such object, the first one it lacks in that order;
\* a team is constructed only if every object has all three.
C13_MissingCapabilityRejected ==
    ret.op = "__init__" =>
        LET ps == args.players
            lacking == {i \in DOMAIN ps :
                          ps[i].cls \in {"NoSetIndex", "NoGetMove", "NoSetInitial", "Bare"}}
        IN  /\ lacking # {} =>
                  LET i == CHOOSE j \in lacking : \A h \in lacking : j <= h
                  IN  /\ ret.status = "TypeError"
                      /\ ret.value = <<IF ps[i].cls = "NoGetMove" THEN "_get_move"
                                        ELSE IF ps[i].cls = "NoSetInitial" THEN "_set_initial"
                                        ELSE "_set_index">>
                      /\ players = << >>
            /\ ret.status = "ok" => (lacking = {} /\ Len(players) = Len(ps))
            /\ ret.status = "TypeError" => lacking # {}

\* C13 witness: the second object of two lacks _get_move, and the error names it
C13_Witness ==
    /\ ret.op = "__init__"
    /\ ret.status = "TypeError"
    /\ ret.value = <<"_get_move">>
    /\ Len(args.players) = 2
    /\ args.players[1].cls = "StoppingPlayer"

\* the step ends a move request: the player's get_move() is invoked and
\* Player2._get_move and team.get_move return or raise
IsGetMoveReturnStep == pc # 0 /\ ret'.op = "get_move"

\* C14: when the get_move() of the player asked to move raises, the move
\* request ends with that exception for the caller of team.get_move: there is
\* no response (no move, no fallback move), get_move() has been invoked once, and
\* the request is over (nothing is asked again).
C14_MoveExceptionPropagates ==
    [][(IsGetMoveReturnStep /\ players[pc].cls = "MoveExceptionPlayer") =>
        /\ ret'.status = "Exception"
        /\ ret'.value = << >>
        /\ ret'.who = pc
        /\ invoked'[pc] = invoked[pc] + 1
        /\ \A p \in DOMAIN invoked : p # pc => invoked'[p] = invoked[p]
        /\ pc' = 0
        /\ bot_players' = bot_players
    ]_vars

\* C14 witness: a move request to a MoveExceptionPlayer has ended with its exception
C14_Witness ==
    /\ ret.op = "get_move"
    /\ ret.status = "Exception"
    /\ ret.who # 0
    /\ players[ret.who].cls = "MoveExceptionPlayer"
    /\ invoked[ret.who] = 1

C16_TurnTableOrStop ==
    [][(IsGetMoveReturnStep /\ players[pc].cls = "TurnBasedPlayer") =>
        LET table == args.players[pc].moves
            k == invoked[pc]
        IN  /\ ret'.status = "ok"
            /\ ret'.value[1] = (IF k \in DOMAIN table THEN table[k] ELSE stop)
    ]_vars

\* C16 witness: with the table {0: north, 2: south} the second move request has
\* been answered with stop
C16_Witness ==
    /\ ret.op = "get_move"
    /\ ret.status = "ok"
    /\ ret.who = 1
    /\ players[1].cls = "TurnBasedPlayer"
    /\ DOMAIN args.players[1].moves = {0, 2}
    /\ args.players[1].moves[0] = "north"
    /\ args.players[1].moves[2] = "south"
    /\ invoked[1] = 2
    /\ ret.value[1] = stop

\* C17: a move request that get_move() answers ends with the response
\* (move, say): move the value get_move() returned (stop for a StoppingPlayer,
\* the move chosen for a user's player), say the last text passed to say()
\* during this request, or "" when nothing was said in it, whatever was said
\* in earlier requests.
C17_ResponseCarriesLastSay ==
    [][(IsGetMoveReturnStep /\ ret'.status = "ok") =>
        /\ Len(ret'.value) = 2
        /\ ret'.value[2] = (IF said = << >> THEN "" ELSE said[1])
        /\ players[pc].cls = "StoppingPlayer" => ret'.value[1] = stop
        /\ players[pc].cls = "UserPlayer" => ret'.value[1] \in Moves
    ]_vars

\* C17 witness: the second move request to a speaking player, in which it
\* said nothing, has been answered with an empty say
C17_Witness ==
    /\ ret.op = "get_move"
    /\ ret.status = "ok"
    /\ ret.who # 0
    /\ players[ret.who].cls = "UserPlayer"
    /\ invoked[ret.who] = 2
    /\ said = << >>
    /\ ret.value[2] = ""

\* the step is a team.get_move for a bot the team has bound
IsBoundGetMoveStep == IsGetMoveStep /\ ret'.arg[1] \in DOMAIN bot_players

\* C18: a team.get_move for a bound bot_id, up to and including the answer of
\* the player, changes only the session bound to bot_id: its history grows by
\* the one universe given and its game state becomes the one given; every
\* other player of the team (history, game state, index, random stream and all
\* else) and the mapping are as before.
C18_GetMoveTouchesOneSession ==
    [][/\ IsBoundGetMoveStep =>
            LET p == bot_players[ret'.arg[1]]
            IN  /\ ret'.who = p
                /\ pc' = p
                /\ Len(players'[p].universe_states) = Len(players[p].universe_states) + 1
                /\ IsPrefix(players[p].universe_states, players'[p].universe_states)
                /\ IsSnapshotOf(players'[p].universe_states[Len(players'[p].universe_states)],
                                Handed(ret'.arg[2]))
                /\ players'[p]._current_state = <<ret'.arg[3]>>
                /\ players'[p]._index = players[p]._index
                /\ players'[p].rnd = players[p].rnd
                /\ \A q \in DOMAIN players : q # p => players'[q] = players[q]
                /\ bot_players' = bot_players
                /\ unis' = unis
       /\ IsGetMoveReturnStep =>
            /\ \A q \in DOMAIN players : q # pc => players'[q] = players[q]
            /\ players'[pc].universe_states = players[pc].universe_states
            /\ players'[pc]._current_state = players[pc]._current_state
            /\ bot_players' = bot_players
            /\ unis' = unis
    ]_vars

\* C18 witness: in a team of two bound players, the second is asked to move
\* and holds two snapshots while the first still holds one
C18_Witness ==
    /\ pc = 2
    /\ Cardinality(DOMAIN bot_players) >= 2
    /\ Len(players[2].universe_states) = 2
    /\ Len(players[1].universe_states) = 1

\* C19: a team.get_move for a bot_id that is not in the mapping (any bot_id
\* before set_initial) fails with KeyError and changes nothing: no get_move()
\* is invoked or running, every player and the mapping are as before.
C19_UnboundGetMoveFails ==
    [][(IsGetMoveStep /\ ret'.arg[1] \notin DOMAIN bot_players) =>
        /\ ret'.status = "KeyError"
        /\ ret'.value = << >>
        /\ pc' = 0
        /\ invoked' = invoked
        /\ players' = players
        /\ bot_players' = bot_players
        /\ passed' = passed
        /\ unis' = unis
    ]_vars

\* C19 witness: after a set_initial that bound the bots of one team, a
\* get_move for a bot of the other team has failed
C19_Witness ==
    /\ ret.op = "get_move"
    /\ ret.status = "KeyError"
    /\ bot_players # << >>
    /\ ret.arg[1] \notin DOMAIN bot_players

\* C20: when the set_initial() hook of the player at position i raises during
\* team.set_initial, the call ends with that exception and the binding is
\* partial: the players before i are mapped, each with a session of the one
\* snapshot and the game state given; player i has its index set and the
\* snapshot stored but is not in the mapping; the players after i are as they
\* were, and no other entry of the mapping has changed.
C20_HookFailureLeavesPartialBinding ==
    [][IsSetInitialStep =>
        LET u == ret'.arg[2]
            g == ret'.arg[3]
            bots == team_bots(unis[u], ret'.arg[1])
            raising == {j \in 1 .. Len(bots) : j <= Len(players)
                                                /\ set_initial_hook_raises(players[j])}
        IN  (Len(bots) <= Len(players) /\ raising # {}) =>
              LET i == CHOOSE j \in raising : \A h \in raising : j <= h
              IN  /\ ret'.status = "Exception"
                  /\ ret'.value = << >>
                  /\ \A j \in 1 .. (i - 1) :
                        /\ players'[j]._index = <<bots[j]>>
                        /\ players'[j]._current_state = <<g>>
                        /\ Len(players'[j].universe_states) = 1
                        /\ IsSnapshotOf(players'[j].universe_states[1], Handed(u))
                        /\ bots[j] \in DOMAIN bot_players'
                        /\ bot_players'[bots[j]] = j
                  /\ players'[i]._index = <<bots[i]>>
                  /\ Len(players'[i].universe_states) = 1
                  /\ IsSnapshotOf(players'[i].universe_states[1], Handed(u))
                  /\ i \notin Range(bot_players')
                  /\ \A j \in (i + 1) .. Len(players) : players'[j] = players[j]
                  /\ DOMAIN bot_players' = DOMAIN bot_players \cup {bots[j] : j \in 1 .. (i - 1)}
                  /\ \A k \in DOMAIN bot_players :
                        k \notin {bots[j] : j \in 1 .. (i - 1)} => bot_players'[k] = bot_players[k]
    ]_vars

\* C20 witness: the hook of the second of two players has raised; the first is
\* mapped, the second has its index and its snapshot and is not mapped
C20_Witness ==
    /\ ret.op = "set_initial"
    /\ ret.status = "Exception"
    /\ Len(players) = 2
    /\ players[1].cls # "InitialExceptionPlayer"
    /\ players[2].cls = "InitialExceptionPlayer"
    /\ Range(bot_players) = {1}
    /\ players[2]._index # << >>
    /\ Len(players[2].universe_states) = 1

====
